---- MODULE Spec2Model ----
(***************************************************************************)
(* Model of gh_labels.py: the GitHub label reconciler (GhLabelSync) and    *)
(* the REST client (Api) it drives.                                        *)
(*                                                                         *)
(* Strings are sequences of one-character strings, so that str.lower(),    *)
(* color[1:] and the regular expression RE_VALID_COLOR are computed on     *)
(* characters.  A value read from the YAML configuration is tagged with    *)
(* its Python type: [t |-> "str", v |-> <characters>] or [t |-> "int"].    *)
(* A dict is a TLA+ function whose DOMAIN is its key set.                  *)
(***************************************************************************)
EXTENDS Integers, Sequences, FiniteSets, TLC

VARIABLES
    config,     \* the parsed YAML configuration file (never changes)
    delete,     \* INPUT_MODE == 'delete'
    debug,      \* INPUT_DEBUG == 'enable', read by each invocation
    remote,     \* the repository's labels as GitHub holds them, in list order
    pc,         \* "start" | "ready" | "sync" | "done" | "failed" | "build_failed"
    err,        \* the exception that ended the invocation, "" when none
    colors,     \* self.colors
    labels,     \* self.labels
    ignores,    \* self.ignores
    live,       \* the list get_labels() returned
    i,          \* position of the first loop of sync() in live
    j,          \* position of the second loop of sync() in self.labels
    updated,    \* the local set `updated` of sync()
    calls,      \* REST calls this invocation issued, in order, with their result
    outcomes,   \* the Updating / Deleting / Skipping lines printed, in order
    creating,   \* the Creating lines printed, in order
    run,        \* number of the current invocation of main()
    before,     \* the remote labels when the current invocation started
    history     \* one summary per invocation that returned from sync()

vars == <<config, delete, debug, remote, pc, err, colors, labels, ignores,
          live, i, j, updated, calls, outcomes, creating, run, before, history>>

-----------------------------------------------------------------------------
(* Bounds of the model. *)

MaxRuns == 2
MaxLive == 2
MaxSpecs == 2

-----------------------------------------------------------------------------
(* Characters and strings. *)

UpperAlpha == <<"A","B","C","D","E","F","G","H","I","J","K","L","M",
                "N","O","P","Q","R","S","T","U","V","W","X","Y","Z">>
LowerAlpha == <<"a","b","c","d","e","f","g","h","i","j","k","l","m",
                "n","o","p","q","r","s","t","u","v","w","x","y","z">>

LowerChar(c) ==
    IF \E k \in 1..26 : UpperAlpha[k] = c
    THEN LowerAlpha[CHOOSE k \in 1..26 : UpperAlpha[k] = c]
    ELSE c

\* str.lower()
Lower(s) == [k \in 1..Len(s) |-> LowerChar(s[k])]

HexDigits == {"0","1","2","3","4","5","6","7","8","9",
              "a","b","c","d","e","f","A","B","C","D","E","F"}

\* RE_VALID_COLOR.match(color) is not None: re.match anchors at the start only.
RE_VALID_COLOR(color) ==
    /\ Len(color) >= 7
    /\ color[1] = "#"
    /\ \A k \in 2..7 : color[k] \in HexDigits

Str(s) == [t |-> "str", v |-> s]
NotStr == [t |-> "int"]

\* isinstance(name, str)
IsStr(x) == x.t = "str"

\* value.get(key, default)
Get(value, key, default) == IF key \in DOMAIN value THEN value[key] ELSE default

None == [none |-> TRUE]

-----------------------------------------------------------------------------
(* Configuration build: GhLabelSync.__init__. *)

\* _validate_color: the exception it raises, "" when it returns.
_validate_color(color) ==
    IF ~IsStr(color) THEN "TypeError"
    ELSE IF ~RE_VALID_COLOR(color.v) THEN "ValueError: not a valid color"
    ELSE ""

\* color[1:]
StripHash(color) == Tail(color)

\* One pass of the loop of _parse_colors over config['colors'].items(), a
\* sequence of [name, color] items whose names are distinct (a dict).
RECURSIVE ParseColorsFrom(_, _, _)
ParseColorsFrom(items, k, acc) ==
    IF k > Len(items) THEN [err |-> "", colors |-> acc]
    ELSE LET name == items[k].name
             color == items[k].color
         IN  IF _validate_color(color) # ""
             THEN [err |-> _validate_color(color), colors |-> acc]
             ELSE IF ~IsStr(name) THEN [err |-> "TypeError", colors |-> acc]
             ELSE IF name.v \in DOMAIN acc
             THEN [err |-> "ValueError: color name already present", colors |-> acc]
             ELSE ParseColorsFrom(items, k + 1,
                      [n \in DOMAIN acc \cup {name.v} |->
                          IF n = name.v THEN StripHash(color.v) ELSE acc[n]])

EmptyDict == [n \in {} |-> <<>>]

_parse_colors(cfg) == ParseColorsFrom(Get(cfg, "colors", <<>>), 1, EmptyDict)

\* _resolve_color: [err, color].  A color that is not a str makes re.match
\* raise TypeError; an unknown alias makes self.colors[color] raise KeyError.
_resolve_color(table, color) ==
    IF ~IsStr(color) THEN [err |-> "TypeError", color |-> <<>>]
    ELSE IF ~RE_VALID_COLOR(color.v)
         THEN IF color.v \in DOMAIN table
              THEN [err |-> "", color |-> table[color.v]]
              ELSE [err |-> "KeyError", color |-> <<>>]
         ELSE [err |-> "", color |-> color.v]

\* Faulty variant: the name is looked up as written.
DuplicateNameExact(name, seen) == name \in seen

\* `if name.lower() in seen:`
DuplicateName(name, seen) == Lower(name) \in seen

\* The entry _parse_labels appends: the raw dict with its color resolved.
Stored(value, color) ==
    [key \in DOMAIN value |-> IF key = "color" THEN color ELSE value[key].v]

\* The first loop of _parse_labels over config['labels'].
RECURSIVE ParseLabelsFrom(_, _, _, _, _)
ParseLabelsFrom(table, entries, k, seen, acc) ==
    IF k > Len(entries) THEN [err |-> "", labels |-> acc]
    ELSE LET value == entries[k]
             fail(e) == [err |-> e, labels |-> acc]
         IN  IF "name" \notin DOMAIN value THEN fail("KeyError")
             ELSE IF ~IsStr(value.name) THEN fail("TypeError")
             ELSE IF "color" \notin DOMAIN value THEN fail("KeyError")
             ELSE IF _resolve_color(table, value.color).err # ""
                  THEN fail(_resolve_color(table, value.color).err)
             ELSE IF "renamed" \in DOMAIN value /\ ~IsStr(value.renamed)
                  THEN fail("TypeError")
             ELSE IF "description" \in DOMAIN value /\ ~IsStr(value.description)
                  THEN fail("ValueError: description should be of type str")
             ELSE IF DuplicateName(value.name.v, seen)
                  THEN fail("ValueError: name already present in the label list")
             ELSE ParseLabelsFrom(table, entries, k + 1,
                      seen \cup {Lower(value.name.v)},
                      Append(acc, Stored(value, _resolve_color(table, value.color).color)))

\* Faulty variant: the ignore entry is stored as written.
IgnoreKeyExact(name) == name

\* `self.ignores.add(name.lower())`
IgnoreKey(name) == Lower(name)

\* The second loop of _parse_labels over config['ignores'].
RECURSIVE ParseIgnoresFrom(_, _, _)
ParseIgnoresFrom(names, k, acc) ==
    IF k > Len(names) THEN [err |-> "", ignores |-> acc]
    ELSE IF ~IsStr(names[k]) THEN [err |-> "TypeError", ignores |-> acc]
    ELSE ParseIgnoresFrom(names, k + 1, acc \cup {IgnoreKey(names[k].v)})

\* _parse_labels: [err, labels, ignores]
_parse_labels(table, cfg) ==
    LET pl == ParseLabelsFrom(table, Get(cfg, "labels", <<>>), 1, {}, <<>>)
        pi == ParseIgnoresFrom(Get(cfg, "ignores", <<>>), 1, {})
    IN  IF pl.err # "" THEN [err |-> pl.err, labels |-> <<>>, ignores |-> {}]
        ELSE [err |-> pi.err, labels |-> pl.labels, ignores |-> pi.ignores]

\* The two parsing steps of __init__: [err, colors, labels, ignores]
Build(cfg) ==
    LET pc0 == _parse_colors(cfg)
        pl == _parse_labels(pc0.colors, cfg)
    IN  IF pc0.err # ""
        THEN [err |-> pc0.err, colors |-> EmptyDict, labels |-> <<>>, ignores |-> {}]
        ELSE [err |-> pl.err, colors |-> pc0.colors,
              labels |-> pl.labels, ignores |-> pl.ignores]

-----------------------------------------------------------------------------
(* Reconciliation: GhLabelSync._find_label and the decisions of sync(). *)

LabelEdit(old, new, color, description, modified) ==
    [old |-> old, new |-> new, color |-> color,
     description |-> description, modified |-> modified]

\* "Editing an existing label": the condition that sets modified.
Modified(label, old_name, label_color, color, label_description, description) ==
    /\ Lower(label) = Lower(old_name)
    /\ (Lower(label_color) # Lower(color) \/ label_description # description)

\* The loop of _find_label from position k of self.labels.
RECURSIVE FindFrom(_, _, _, _, _)
FindFrom(lbls, k, label, label_color, label_description) ==
    IF k > Len(lbls) THEN None
    ELSE LET value == lbls[k]
             name == value.name
             old_name == Get(value, "renamed", name)
             color == value.color
             description == Get(value, "description", <<>>)
         IN  IF Lower(label) # Lower(old_name)
             THEN FindFrom(lbls, k + 1, label, label_color, label_description)
             ELSE LabelEdit(old_name, name, color, description,
                      Modified(label, old_name, label_color, color,
                               label_description, description))

_find_label(lbls, label, label_color, label_description) ==
    FindFrom(lbls, 1, label, label_color, label_description)

\* A REST call on the labels of the repository.
Call(op, old, new, color, description, src) ==
    [op |-> op, old |-> old, new |-> new, color |-> color,
     description |-> description, src |-> src]

\* Faulty variant: color and description change places in the payload.
create_labelSwapped(name, color, description, src) ==
    Call("create", <<>>, name, description, color, src)

create_label(name, color, description, src) ==
    Call("create", <<>>, name, color, description, src)
edit_label(old_name, new_name, color, description, src) ==
    Call("edit", old_name, new_name, color, description, src)
delete_label(name, src) ==
    Call("delete", name, <<>>, <<>>, <<>>, src)
get_labels == Call("list", <<>>, <<>>, <<>>, <<>>, 0)
get_contents == Call("contents", <<>>, <<>>, <<>>, <<>>, 0)

\* Faulty variant: the debug flag is not consulted.
SuppressedNever(dbg) == FALSE

\* `if not self.debug:` in front of every mutating call.
Suppressed(dbg) == dbg

\* The condition of the Deleting branch.
ShouldDelete(edit, del, name, ign) ==
    edit = None /\ del /\ Lower(name) \notin ign

\* What one iteration of the first loop of sync() decides for the live label
\* at position k: the line it prints, the call it makes unless debug is on,
\* and the names it adds to `updated`.
Decide(lbls, ign, del, label, k) ==
    LET edit == _find_label(lbls, label.name, label.color, label.description)
    IN  IF edit # None /\ edit.modified
        THEN [outcome |-> "Updating", shown |-> edit.new,
              call |-> edit_label(edit.old, edit.new, edit.color, edit.description, k),
              marks |-> {edit.old, edit.new}]
        ELSE IF ShouldDelete(edit, del, label.name, ign)
        THEN [outcome |-> "Deleting", shown |-> label.name,
              call |-> delete_label(label.name, k),
              marks |-> {label.name}]
        ELSE [outcome |-> "Skipping", shown |-> label.name,
              call |-> None,
              marks |-> {label.name}]

\* `if name not in updated:` of the second loop of sync().
NeedsCreate(name, upd) == name \notin upd

-----------------------------------------------------------------------------
(* The remote end of the REST calls: the repository's label list.  GitHub   *)
(* compares label names without regard to case, takes colors as six hex     *)
(* digits without '#', and answers another status than the one the Api      *)
(* method expects when it cannot do what was asked.                         *)

IsBareHex(color) == Len(color) = 6 /\ \A k \in 1..6 : color[k] \in HexDigits

Holders(rem, name) == {k \in 1..Len(rem) : Lower(rem[k].name) = Lower(name)}

\* Whether the remote answers the expected status (201, 200, 204, 200).
RemoteAccepts(c, rem) ==
    CASE c.op = "create" -> IsBareHex(c.color) /\ Holders(rem, c.new) = {}
      [] c.op = "edit"   -> /\ IsBareHex(c.color)
                            /\ Holders(rem, c.old) # {}
                            /\ Holders(rem, c.new) \subseteq Holders(rem, c.old)
      [] c.op = "delete" -> Holders(rem, c.old) # {}
      [] OTHER           -> TRUE

RemoteLabel(name, color, description) ==
    [name |-> name, color |-> color, description |-> description]

\* The label list after a call the remote accepted.
RemoteApply(c, rem) ==
    CASE c.op = "create" -> Append(rem, RemoteLabel(c.new, c.color, c.description))
      [] c.op = "edit"   -> [k \in 1..Len(rem) |->
                                IF k \in Holders(rem, c.old)
                                THEN RemoteLabel(c.new, c.color, c.description)
                                ELSE rem[k]]
      [] c.op = "delete" -> SelectSeq(rem, LAMBDA l : Lower(l.name) # Lower(c.old))
      [] OTHER           -> rem

\* `assert resp.status_code == expected` inside try/except: the call returns
\* when the status is the expected one and raises RuntimeError otherwise; any
\* request can also fail in transport (timeout, network).
Answers(c, rem) == {ok \in BOOLEAN : ok => RemoteAccepts(c, rem)}

\* Faulty variant: the failure of a call is swallowed.
AfterCallSwallowed(ok, next) == next

\* Where the invocation stands after a call: the RuntimeError is not caught.
AfterCall(ok, next) == IF ok THEN next ELSE "failed"

-----------------------------------------------------------------------------
(* The configurations and the repositories the model starts from. *)

bug == <<"b","u","g">>
Bug == <<"B","u","g">>
defect == <<"d","e","f","e","c","t">>
Defect == <<"D","e","f","e","c","t">>
red == <<"r","e","d">>
wip == <<"w","i","p">>
bogus == <<"b","o","g","u","s">>
A_bug == <<"A"," ","b","u","g">>
HashRed == <<"#","d","7","3","a","4","a">>
BareRed == <<"d","7","3","a","4","a">>
UpperRed == <<"D","7","3","A","4","A">>
BareGreen == <<"0","e","8","a","1","6">>

\* The `colors` mapping of the configuration file, as its items.
GoodTable == << [name |-> Str(red), color |-> Str(HashRed)] >>
BadTable == << [name |-> Str(red), color |-> Str(BareRed)] >>

\* Entries of the `labels` list of the configuration file.
LabelEntries ==
    { [name |-> Str(defect), renamed |-> Str(bug), color |-> Str(red),
       description |-> Str(A_bug)],
      [name |-> Str(bug), color |-> Str(red), description |-> Str(A_bug)],
      [name |-> Str(Bug), color |-> Str(HashRed)],
      [name |-> Str(defect), color |-> Str(red)] }

\* An entry whose description is not a string, and one whose color is
\* neither a literal color nor a key of the color table.
BadDescription == [name |-> Str(defect), color |-> Str(red), description |-> NotStr]
BadAlias == [name |-> Str(defect), color |-> Str(bogus), description |-> Str(A_bug)]

RECURSIVE SeqsUpTo(_, _)
\* The sequences of at most n distinct elements of S.
SeqsUpTo(S, n) ==
    IF n = 0 THEN {<<>>}
    ELSE LET shorter == SeqsUpTo(S, n - 1)
         IN  shorter \cup
             {Append(q, x) : q \in {r \in shorter : Len(r) = n - 1},
                             x \in S}

Distinct(q) == \A a, b \in 1..Len(q) : a # b => q[a] # q[b]

LabelLists == {q \in SeqsUpTo(LabelEntries, MaxSpecs) : Distinct(q)}

Config(c, l, g) == [colors |-> c, labels |-> l, ignores |-> g]

\* Every label list with a valid color table and ignore list, and one
\* configuration for each other way the build can fail.
Configs ==
    {Config(GoodTable, l, g) : l \in LabelLists, g \in {<<>>, <<Str(Defect)>>}}
    \cup { Config(BadTable, <<>>, <<>>),
           Config(GoodTable, <<>>, <<NotStr>>),
           Config(GoodTable, <<BadDescription>>, <<>>),
           Config(GoodTable, <<BadAlias>>, <<>>) }

\* Labels a repository may hold.  GitHub reports colors without '#'.
LiveLabels ==
    { RemoteLabel(bug, UpperRed, A_bug), RemoteLabel(bug, BareGreen, A_bug),
      RemoteLabel(bug, BareRed, <<>>), RemoteLabel(Bug, UpperRed, A_bug),
      RemoteLabel(defect, UpperRed, A_bug), RemoteLabel(defect, BareGreen, A_bug),
      RemoteLabel(wip, BareGreen, <<>>) }

\* GitHub keeps label names unique without regard to case.
UniqueNames(rem) ==
    \A a, b \in 1..Len(rem) : a # b => Lower(rem[a].name) # Lower(rem[b].name)

Repositories == {q \in SeqsUpTo(LiveLabels, MaxLive) : UniqueNames(q)}

-----------------------------------------------------------------------------
(* The invocations. *)

Init ==
    /\ config \in Configs
    /\ delete \in BOOLEAN
    /\ debug \in BOOLEAN
    /\ remote \in Repositories
    /\ pc = "start"
    /\ err = ""
    /\ colors = EmptyDict
    /\ labels = <<>>
    /\ ignores = {}
    /\ live = <<>>
    /\ i = 1
    /\ j = 1
    /\ updated = {}
    /\ calls = <<>>
    /\ outcomes = <<>>
    /\ creating = <<>>
    /\ run = 1
    /\ before = remote
    /\ history = <<>>

Issued(c, ok) == [call |-> c, ok |-> ok]

\* GhLabelSync.__init__: fetch the configuration file, then build the model.
Construct ==
    /\ pc = "start"
    /\ \E ok \in Answers(get_contents, remote) :
         LET b == Build(config)
         IN  /\ calls' = Append(calls, Issued(get_contents, ok))
             /\ IF ~ok
                THEN /\ pc' = "failed"
                     /\ err' = "RuntimeError"
                     /\ UNCHANGED <<colors, labels, ignores>>
                ELSE IF b.err # ""
                THEN /\ pc' = "build_failed"
                     /\ err' = b.err
                     /\ UNCHANGED <<colors, labels, ignores>>
                ELSE /\ pc' = "ready"
                     /\ err' = ""
                     /\ colors' = b.colors
                     /\ labels' = b.labels
                     /\ ignores' = b.ignores
    /\ UNCHANGED <<config, delete, debug, remote, live, i, j, updated,
                   outcomes, creating, run, before, history>>

\* sync(): `self.git.get_labels()`, materialised before the first iteration.
GetLabels ==
    /\ pc = "ready"
    /\ \E ok \in Answers(get_labels, remote) :
         /\ calls' = Append(calls, Issued(get_labels, ok))
         /\ pc' = AfterCall(ok, "sync")
         /\ err' = IF ok THEN err ELSE "RuntimeError"
         /\ live' = IF ok THEN remote ELSE live
    /\ UNCHANGED <<config, delete, debug, remote, colors, labels, ignores,
                   i, j, updated, outcomes, creating, run, before, history>>

\* sync(): one iteration of `for label in self.git.get_labels()`.
ProcessLabel ==
    /\ pc = "sync"
    /\ i <= Len(live)
    /\ LET d == Decide(labels, ignores, delete, live[i], i)
       IN  /\ outcomes' = Append(outcomes, [outcome |-> d.outcome, name |-> live[i].name,
                                            shown |-> d.shown])
           /\ IF d.call = None \/ Suppressed(debug)
              THEN /\ updated' = updated \cup d.marks
                   /\ i' = i + 1
                   /\ UNCHANGED <<calls, remote, pc, err>>
              ELSE \E ok \in Answers(d.call, remote) :
                     /\ calls' = Append(calls, Issued(d.call, ok))
                     /\ remote' = IF ok THEN RemoteApply(d.call, remote) ELSE remote
                     /\ pc' = AfterCall(ok, "sync")
                     /\ err' = IF ok THEN err ELSE "RuntimeError"
                     /\ updated' = IF ok THEN updated \cup d.marks ELSE updated
                     /\ i' = IF ok THEN i + 1 ELSE i
    /\ UNCHANGED <<config, delete, debug, colors, labels, ignores, live, j,
                   creating, run, before, history>>

\* sync(): one iteration of `for value in self.labels`.
CreateLabel ==
    /\ pc = "sync"
    /\ i > Len(live)
    /\ j <= Len(labels)
    /\ LET value == labels[j]
           name == value.name
           color == value.color
           description == Get(value, "description", <<>>)
           c == create_label(name, color, description, j)
       IN  IF ~NeedsCreate(name, updated)
           THEN /\ j' = j + 1
                /\ UNCHANGED <<calls, remote, pc, err, creating>>
           ELSE /\ creating' = Append(creating, name)
                /\ IF Suppressed(debug)
                   THEN /\ j' = j + 1
                        /\ UNCHANGED <<calls, remote, pc, err>>
                   ELSE \E ok \in Answers(c, remote) :
                          /\ calls' = Append(calls, Issued(c, ok))
                          /\ remote' = IF ok THEN RemoteApply(c, remote) ELSE remote
                          /\ pc' = AfterCall(ok, "sync")
                          /\ err' = IF ok THEN err ELSE "RuntimeError"
                          /\ j' = IF ok THEN j + 1 ELSE j
    /\ UNCHANGED <<config, delete, debug, colors, labels, ignores, live, i,
                   updated, outcomes, run, before, history>>

Summary ==
    [debug |-> debug, before |-> before, after |-> remote, live |-> live,
     calls |-> calls, outcomes |-> outcomes, creating |-> creating]

\* sync() returns and main() returns 0.
Return ==
    /\ pc = "sync"
    /\ i > Len(live)
    /\ j > Len(labels)
    /\ pc' = "done"
    /\ history' = Append(history, Summary)
    /\ UNCHANGED <<config, delete, debug, remote, err, colors, labels, ignores,
                   live, i, j, updated, calls, outcomes, creating, run, before>>

\* main() is invoked again on the same configuration and mode, with
\* INPUT_DEBUG read afresh; nothing else touched the repository in between.
Main ==
    /\ pc = "done"
    /\ run < MaxRuns
    /\ run' = run + 1
    /\ debug' \in BOOLEAN
    /\ pc' = "start"
    /\ err' = ""
    /\ colors' = EmptyDict
    /\ labels' = <<>>
    /\ ignores' = {}
    /\ live' = <<>>
    /\ i' = 1
    /\ j' = 1
    /\ updated' = {}
    /\ calls' = <<>>
    /\ outcomes' = <<>>
    /\ creating' = <<>>
    /\ before' = remote
    /\ UNCHANGED <<config, delete, remote, history>>

Next ==
    \/ Construct
    \/ GetLabels
    \/ ProcessLabel
    \/ CreateLabel
    \/ Return
    \/ Main

Spec == Init /\ [][Next]_vars

-----------------------------------------------------------------------------
(* Vocabulary of the properties. *)

Mutating(c) == c.call.op \in {"create", "edit", "delete"}

\* The create / edit / delete calls among cs, in order.
LabelCalls(cs) == SelectSeq(cs, Mutating)

\* The calls issued while the live label at position k was processed.
CallsFor(cs, k) ==
    SelectSeq(cs, LAMBDA c : c.call.op \in {"edit", "delete"} /\ c.call.src = k)

\* The create calls issued for the LabelSpec at position s.
CreatesFor(cs, s) ==
    SelectSeq(cs, LAMBDA c : c.call.op = "create" /\ c.call.src = s)

Bare(cs) == [k \in 1..Len(cs) |-> cs[k].call]

\* The name a LabelSpec is matched by: its prior name, else its name.
PriorName(S) == IF "renamed" \in DOMAIN S THEN S.renamed ELSE S.name
DescriptionOf(S) == IF "description" \in DOMAIN S THEN S.description ELSE <<>>

Matches(L, S) == Lower(L.name) = Lower(PriorName(S))

\* The position of the LabelSpec that governs live label L, 0 when none.
MatchOf(L) ==
    IF \E s \in 1..Len(labels) : Matches(L, labels[s])
    THEN CHOOSE s \in 1..Len(labels) :
            /\ Matches(L, labels[s])
            /\ \A t \in 1..(s - 1) : ~Matches(L, labels[t])
    ELSE 0

\* The calls the specification prescribes.
EditOf(L, S, k) ==
    [op |-> "edit", old |-> L.name, new |-> S.name, color |-> S.color,
     description |-> DescriptionOf(S), src |-> k]
DeleteOf(L, k) ==
    [op |-> "delete", old |-> L.name, new |-> <<>>, color |-> <<>>,
     description |-> <<>>, src |-> k]
CreateOf(S, s) ==
    [op |-> "create", old |-> <<>>, new |-> S.name, color |-> S.color,
     description |-> DescriptionOf(S), src |-> s]

\* The first loop of sync() has handled, or failed on, live label k.
Attempted(k) == k < i \/ (k = i /\ pc = "failed")

\* The invocation went through sync() to its end with debug off.
Finished == pc = "done" /\ ~debug

-----------------------------------------------------------------------------
(* C1.  Idempotence: of two successive invocations with debug off, the     *)
(* second leaves the remote labels as the first left them, issues no       *)
(* create, edit or delete call, and skips every live label.                *)

C1_Idempotent ==
    \A a \in 1..(Len(history) - 1) :
        (~history[a].debug /\ ~history[a + 1].debug) =>
            /\ history[a + 1].after = history[a].after
            /\ LabelCalls(history[a + 1].calls) = <<>>
            /\ history[a + 1].creating = <<>>
            /\ \A k \in 1..Len(history[a + 1].outcomes) :
                   history[a + 1].outcomes[k].outcome = "Skipping"

(* C2.  Rename preservation: a live label named as the prior name of the   *)
(* LabelSpec that governs it, whose name is another one, gets exactly one  *)
(* call, edit(L.name, S.name, S.color, S.description), whatever its color  *)
(* and description, and S is not created.                                  *)

C2_RenameEdits ==
    Finished =>
        \A k \in 1..Len(live) :
            LET L == live[k]
                s == MatchOf(L)
            IN  (/\ s # 0
                 /\ "renamed" \in DOMAIN labels[s]
                 /\ labels[s].renamed = L.name
                 /\ labels[s].name # labels[s].renamed) =>
                    /\ Bare(CallsFor(calls, k)) =
                         << EditOf(L, labels[s], k) >>
                    /\ CreatesFor(calls, s) = <<>>

(* C3.  Deletion policy: with debug off, a live label that matches no      *)
(* LabelSpec gets exactly one call delete(L.name) when delete mode is on   *)
(* and its lower-cased name is not an ignore entry (compared without       *)
(* regard to case), and no call at all otherwise; every delete call is     *)
(* for a label that matched no LabelSpec.                                  *)

IgnoredNames == {Lower(config.ignores[n].v) : n \in 1..Len(config.ignores)}

C3_DeletionPolicy ==
    ~debug =>
        /\ \A k \in 1..Len(live) :
             (Attempted(k) /\ MatchOf(live[k]) = 0) =>
                 /\ Bare(CallsFor(calls, k)) =
                       IF delete /\ Lower(live[k].name) \notin IgnoredNames
                       THEN << DeleteOf(live[k], k) >>
                       ELSE <<>>
                 /\ \A n \in 1..Len(calls) :
                       calls[n].call.op = "create" => calls[n].call.new # live[k].name
        /\ \A n \in 1..Len(calls) :
             calls[n].call.op = "delete" =>
                 /\ calls[n].call.src \in 1..Len(live)
                 /\ MatchOf(live[calls[n].call.src]) = 0
                 /\ calls[n].call.old = live[calls[n].call.src].name

C3_Witness ==
    /\ Finished
    /\ delete
    /\ \E k \in 1..Len(live) :
         /\ MatchOf(live[k]) = 0
         /\ Lower(live[k].name) \notin IgnoredNames
         /\ Len(CallsFor(calls, k)) = 1
    /\ \E k \in 1..Len(live) :
         /\ MatchOf(live[k]) = 0
         /\ Lower(live[k].name) \in IgnoredNames
         /\ \A n \in 1..Len(config.ignores) : config.ignores[n].v # live[k].name
         /\ CallsFor(calls, k) = <<>>

(* C4.  Creation: a LabelSpec to which no live label corresponds (none     *)
(* matches it and none bears its name) gets exactly one call               *)
(* create(S.name, S.color, S.description); every create call comes after   *)
(* every edit and delete call of the invocation, and the create calls      *)
(* follow the order of the LabelSpecs in the configuration.                *)

NoLiveLabelFor(S) ==
    \A k \in 1..Len(live) :
        ~Matches(live[k], S) /\ Lower(live[k].name) # Lower(S.name)

\* The position in config['labels'] of the entry named name.
DeclaredAt(name) ==
    CHOOSE s \in 1..Len(config.labels) : config.labels[s].name.v = name

C4_CreateOrder ==
    /\ \A a, b \in 1..Len(calls) :
         (a < b /\ calls[a].call.op = "create") =>
             /\ calls[b].call.op = "create"
             /\ DeclaredAt(calls[a].call.new) < DeclaredAt(calls[b].call.new)
    /\ \A n \in 1..Len(calls) :
         calls[n].call.op = "create" =>
             \E s \in 1..Len(labels) :
                 calls[n].call = CreateOf(labels[s], s)
    /\ Finished =>
         \A s \in 1..Len(labels) :
             NoLiveLabelFor(labels[s]) => Len(CreatesFor(calls, s)) = 1

C4_Witness ==
    /\ Finished
    /\ Len(labels) = 2
    /\ NoLiveLabelFor(labels[1])
    /\ NoLiveLabelFor(labels[2])
    /\ Len(calls) = 5
    /\ calls[3].call.op = "delete"
    /\ calls[4].call.op = "create"
    /\ calls[5].call.op = "create"

(* C5.  Color resolution: the color of every LabelSpec after the build is   *)
(* six hex digits without '#': a literal "#1d76db" gives "1d76db", an      *)
(* alias gives the table's color without its '#'; a color that is neither  *)
(* a literal nor a known alias fails the build.                            *)

RawTable == {config.colors[n] : n \in 1..Len(config.colors)}

C5_ColorResolution ==
    /\ pc \in {"ready", "sync", "done"} =>
         \A s \in 1..Len(labels) :
             LET raw == config.labels[s].color.v
             IN  /\ IsBareHex(labels[s].color)
                 /\ RE_VALID_COLOR(raw) => labels[s].color = Tail(raw)
                 /\ \A e \in RawTable :
                        e.name.v = raw => labels[s].color = Tail(e.color.v)
    /\ (pc \notin {"start", "failed"} /\ config.labels = <<BadAlias>>) =>
         pc = "build_failed"

(* C6.  Dry run: an invocation with debug on prints the same Updating /     *)
(* Deleting / Skipping and Creating lines as the invocation with debug off *)
(* on the same configuration, mode and live labels, and issues no create,  *)
(* edit or delete call.                                                    *)

IsPrefix(p, q) == Len(p) <= Len(q) /\ \A k \in 1..Len(p) : p[k] = q[k]

C6_DryRun ==
    /\ debug => LabelCalls(calls) = <<>> /\ remote = before
    /\ \A a \in 1..Len(history) :
         history[a].debug =>
             /\ LabelCalls(history[a].calls) = <<>>
             /\ history[a].after = history[a].before
             /\ (~debug /\ pc \in {"sync", "done", "failed"}
                     /\ before = history[a].before) =>
                    /\ IsPrefix(outcomes, history[a].outcomes)
                    /\ IsPrefix(creating, history[a].creating)
                    /\ pc = "done" =>
                          /\ outcomes = history[a].outcomes
                          /\ creating = history[a].creating

C6_Witness ==
    /\ Finished
    /\ Len(history) = 2
    /\ history[1].debug
    /\ history[1].live = live
    /\ \E k \in 1..Len(outcomes) : outcomes[k].outcome = "Updating"
    /\ \E k \in 1..Len(outcomes) : outcomes[k].outcome = "Deleting"
    /\ creating # <<>>
    /\ Len(LabelCalls(calls)) = 3

(* C7.  Validation before any remote call: a configuration with two label  *)
(* names equal without regard to case fails the build with the duplicate   *)
(* name error, and an invocation whose build fails has issued no list,     *)
(* create, edit or delete call and left the remote labels untouched.       *)

HasDuplicateNames ==
    \E a, b \in 1..Len(config.labels) :
        /\ a # b
        /\ Lower(config.labels[a].name.v) = Lower(config.labels[b].name.v)

C7_BuildFailsFirst ==
    /\ (HasDuplicateNames /\ pc \notin {"start", "failed"}) =>
          /\ pc = "build_failed"
          /\ err = "ValueError: name already present in the label list"
    /\ pc = "build_failed" =>
          /\ \A n \in 1..Len(calls) : calls[n].call.op = "contents"
          /\ remote = before
          /\ live = <<>>

C7_Witness ==
    /\ pc = "build_failed"
    /\ remote # <<>>
    /\ \E a, b \in 1..Len(config.labels) :
          /\ config.labels[a].name.v # config.labels[b].name.v
          /\ Lower(config.labels[a].name.v) = Lower(config.labels[b].name.v)

(* C8.  Transport failure is fatal: a failed call is the last call of its  *)
(* invocation (nothing is issued after it and it is not retried), and the  *)
(* remote labels are those the earlier successful calls produced: nothing  *)
(* is rolled back.                                                         *)

RECURSIVE Replay(_, _, _)
\* The remote labels after the successful calls of cs from position k.
Replay(cs, k, rem) ==
    IF k > Len(cs) THEN rem
    ELSE Replay(cs, k + 1,
                IF cs[k].ok /\ Mutating(cs[k])
                THEN CASE cs[k].call.op = "create" ->
                            Append(rem, RemoteLabel(cs[k].call.new, cs[k].call.color,
                                                    cs[k].call.description))
                       [] cs[k].call.op = "edit" ->
                            [n \in 1..Len(rem) |->
                               IF Lower(rem[n].name) = Lower(cs[k].call.old)
                               THEN RemoteLabel(cs[k].call.new, cs[k].call.color,
                                                cs[k].call.description)
                               ELSE rem[n]]
                       [] OTHER ->
                            SelectSeq(rem, LAMBDA l :
                                         Lower(l.name) # Lower(cs[k].call.old))
                ELSE rem)

C8_TransportFatal ==
    /\ \A n \in 1..Len(calls) :
         ~calls[n].ok => (n = Len(calls) /\ pc = "failed")
    /\ pc = "failed" => (calls # <<>> /\ ~calls[Len(calls)].ok)
    /\ remote = Replay(calls, 1, before)

C8_Witness ==
    /\ pc = "failed"
    /\ Len(LabelCalls(calls)) >= 2
    /\ LabelCalls(calls)[1].ok
    /\ remote # before
    /\ RemoteAccepts(calls[Len(calls)].call, remote)

(* C9.  A matched LabelSpec is never re-created: when the second loop of   *)
(* sync() has run, for every live label L that matched a LabelSpec S both  *)
(* L.name and S.name are in `updated`, whether L was updated or skipped,   *)
(* and no create call was issued for S.                                    *)

C9_MatchedNotCreated ==
    (~debug /\ (pc = "done" \/ (pc = "failed" /\ i > Len(live)))) =>
        \A k \in 1..Len(live) :
            MatchOf(live[k]) # 0 =>
                /\ live[k].name \in updated
                /\ labels[MatchOf(live[k])].name \in updated
                /\ CreatesFor(calls, MatchOf(live[k])) = <<>>

(* C10.  Convergence: when an invocation with debug off ends and every     *)
(* call succeeded, the remote labels hold, for every LabelSpec S, a label  *)
(* named S.name with S's color (without regard to case) and description.   *)

C10_Converges ==
    Finished =>
        \A s \in 1..Len(labels) :
            \E n \in 1..Len(remote) :
                /\ remote[n].name = labels[s].name
                /\ Lower(remote[n].color) = Lower(labels[s].color)
                /\ remote[n].description = DescriptionOf(labels[s])

====
